---------------------------- MODULE Spec2Model ----------------------------
(***************************************************************************)
(* A model of tugapse/gitdiff (src/main.py, src/git_diff_script.py): a     *)
(* sequential pipeline over the output of git.  Texts are TLA+ strings,    *)
(* read character by character with Len, SubSeq and \o; git and the file   *)
(* system are the environment, whose answers are drawn from small sets.    *)
(***************************************************************************)
EXTENDS Naturals, Integers, Sequences, FiniteSets, TLC

VARIABLES
    _verbose,            \* main.py:12  global flag
    _ignore_binaries,    \* main.py:13  global flag
    _output_json,        \* main.py:14  global flag
    file_extensions,     \* run_diff_logic argument ({} stands for None / empty)
    filter_filename,     \* run_diff_logic argument ("" stands for None / empty)
    path_exists,         \* environment: os.path.exists(normalized_repo_path)
    git_dir_exists,      \* environment: os.path.isdir(<repo>/.git)
    pc,                  \* position of run_diff_logic
    changed_files_info,  \* main.py:308
    idx,                 \* position of the loop of main.py:336
    walk,                \* the os.walk loop of main.py:197 (files left, flag)
    all_file_diffs,      \* main.py:334, in insertion order
    io,                  \* standard output, standard error, calls made
    ret,                 \* return value of run_diff_logic
    call                 \* a direct call of one function (unit harness)

vars == <<_verbose, _ignore_binaries, _output_json, file_extensions,
          filter_filename, path_exists, git_dir_exists, pc,
          changed_files_info, idx, walk, all_file_diffs, io, ret, call>>

flagVars == <<_verbose, _ignore_binaries, _output_json>>

runVars == <<file_extensions, filter_filename, path_exists, git_dir_exists,
             pc, changed_files_info, idx, walk, all_file_diffs, ret>>

---------------------------------------------------------------------------
(* Bounds of the model.                                                    *)

\* pieces a hunk-splitter input text is built from
MaxPieces == 4
\* lines of a status report given to the status-parsing loop alone
MaxStatusLines == 3
\* lines of a status report fed to run_diff_logic
MaxLines == 2

---------------------------------------------------------------------------
(* Python's str operations, as the code uses them.                         *)

Ch(s, i) == SubSeq(s, i, i)

\* characters str.strip() and str.split(None) treat as white space
Whitespace == {" ", "\t", "\n", "\r", "\f"}

\* characters str.splitlines() treats as line boundaries ("\r\n" is one)
LineBreaks == {"\n", "\r", "\f"}

StartsWith(s, p) == Len(s) >= Len(p) /\ SubSeq(s, 1, Len(p)) = p

\* the least element of a non-empty set of numbers
Least(S) == CHOOSE i \in S : \A j \in S : i <= j

\* the greatest element of a non-empty set of numbers
Greatest(S) == CHOOSE i \in S : \A j \in S : i >= j

\* index of the first occurrence of sub in s at or after from, 0 if none
Find(s, sub, from) ==
    LET hits == {i \in from..(Len(s) - Len(sub) + 1) :
                    SubSeq(s, i, i + Len(sub) - 1) = sub}
    IN  IF hits = {} THEN 0 ELSE Least(hits)

\* Python's  sub in s
Contains(s, sub) == Find(s, sub, 1) # 0

\* index of the last occurrence of the character c in s at or before i, 0 if none
RFind(s, c, i) ==
    LET hits == {k \in 1..i : Ch(s, k) = c}
    IN  IF hits = {} THEN 0 ELSE Greatest(hits)

\* index of the first character at or after i that is no white space,
\* Len(s) + 1 if none
LStripFrom(s, i) ==
    LET hits == {k \in i..Len(s) : Ch(s, k) \notin Whitespace}
    IN  IF hits = {} THEN (IF i > Len(s) THEN i ELSE Len(s) + 1) ELSE Least(hits)

\* index of the last character at or before j that is no white space, 0 if none
RStripFrom(s, j) ==
    LET hits == {k \in 1..j : Ch(s, k) \notin Whitespace}
    IN  IF hits = {} THEN 0 ELSE Greatest(hits)

\* str.strip()
Strip(s) ==
    LET i == LStripFrom(s, 1)
        j == RStripFrom(s, Len(s))
    IN  IF i > j THEN "" ELSE SubSeq(s, i, j)

\* str.splitlines(): no empty last line after a final line boundary
RECURSIVE SplitLinesFrom(_, _, _)
SplitLinesFrom(s, start, acc) ==
    LET breaks == {k \in start..Len(s) : Ch(s, k) \in LineBreaks}
    IN  IF breaks = {}
        THEN IF start <= Len(s) THEN Append(acc, SubSeq(s, start, Len(s))) ELSE acc
        ELSE LET i == Least(breaks)
                 adv == IF Ch(s, i) = "\r" /\ i < Len(s) /\ Ch(s, i + 1) = "\n"
                        THEN 2 ELSE 1
             IN  SplitLinesFrom(s, i + adv, Append(acc, SubSeq(s, start, i - 1)))

SplitLines(s) == SplitLinesFrom(s, 1, <<>>)

\* sep.join(parts)
RECURSIVE Join(_, _)
Join(parts, sep) ==
    IF parts = <<>> THEN ""
    ELSE IF Len(parts) = 1 THEN parts[1]
    ELSE parts[1] \o sep \o Join(Tail(parts), sep)

\* index of the first white space character at or after i, Len(s) + 1 if none
SkipToSpace(s, i) ==
    LET hits == {k \in i..Len(s) : Ch(s, k) \in Whitespace}
    IN  IF hits = {} THEN (IF i > Len(s) THEN i ELSE Len(s) + 1) ELSE Least(hits)

\* str.split(None, 1): at most two parts, split at the first run of white space
SplitWs1(s) ==
    LET i == LStripFrom(s, 1)
        j == SkipToSpace(s, i)
        k == LStripFrom(s, j)
    IN  IF i > Len(s) THEN <<>>
        ELSE IF k > Len(s) THEN <<SubSeq(s, i, j - 1)>>
        ELSE <<SubSeq(s, i, j - 1), SubSeq(s, k, Len(s))>>

\* str.split(sep): every part between occurrences of sep
RECURSIVE SplitSepFrom(_, _, _, _)
SplitSepFrom(s, sep, start, acc) ==
    LET at == Find(s, sep, start)
    IN  IF at = 0 THEN Append(acc, SubSeq(s, start, Len(s)))
        ELSE SplitSepFrom(s, sep, at + Len(sep),
                          Append(acc, SubSeq(s, start, at - 1)))

SplitSep(s, sep) == SplitSepFrom(s, sep, 1, <<>>)

Upper == "ABCDEFGHIJKLMNOPQRSTUVWXYZ"
LowerCase == "abcdefghijklmnopqrstuvwxyz"

\* str.lower()
RECURSIVE Lower(_)
Lower(s) ==
    IF s = "" THEN ""
    ELSE LET c == Ch(s, 1)
             u == Find(Upper, c, 1)
         IN  (IF u = 0 THEN c ELSE Ch(LowerCase, u)) \o Lower(SubSeq(s, 2, Len(s)))

\* the characters of the model's texts in code point order
CodePoints ==
    "\t\n\f\r !\"#$%&'()*+,-./0123456789:;<=>?@ABCDEFGHIJKLMNOPQRSTUVWXYZ[\\]^_abcdefghijklmnopqrstuvwxyz{|}~"

Ord(c) == Find(CodePoints, c, 1)

\* Python's  a < b  on str
RECURSIVE StrLess(_, _)
StrLess(a, b) ==
    IF b = "" THEN FALSE
    ELSE IF a = "" THEN TRUE
    ELSE IF Ch(a, 1) = Ch(b, 1)
    THEN StrLess(SubSeq(a, 2, Len(a)), SubSeq(b, 2, Len(b)))
    ELSE Ord(Ch(a, 1)) < Ord(Ch(b, 1))

\* os.path.basename
Basename(p) == SubSeq(p, RFind(p, "/", Len(p)) + 1, Len(p))

\* first index in from..dot-1 holding a character other than ".", 0 if none
NonDotBefore(p, from, dot) ==
    LET hits == {k \in from..(dot - 1) : Ch(p, k) # "."}
    IN  IF hits = {} THEN 0 ELSE Least(hits)

\* os.path.splitext(p)[1]: the last dot of the last component, leading dots apart
SplitExt(p) ==
    LET sepIndex == RFind(p, "/", Len(p))
        dotIndex == RFind(p, ".", Len(p))
    IN  IF dotIndex > sepIndex /\ NonDotBefore(p, sepIndex + 1, dotIndex) # 0
        THEN SubSeq(p, dotIndex, Len(p))
        ELSE ""

---------------------------------------------------------------------------
(* _split_diff_into_hunks, main.py:125-162.                                *)

\* the loop of main.py:141-156 from line i on: st holds hunk_blocks and
\* current_block_lines
RECURSIVE HunkLoop(_, _, _)
HunkLoop(lines, i, st) ==
    IF i > Len(lines) THEN st
    ELSE LET line == lines[i]
             flushed == IF st.current_block_lines # <<>>
                        THEN Append(st.hunk_blocks,
                                    Join(st.current_block_lines, "\n"))
                        ELSE st.hunk_blocks
         IN  IF StartsWith(line, "diff --git ") \/ StartsWith(line, "@@ ")
             THEN HunkLoop(lines, i + 1,
                           [hunk_blocks |-> flushed,
                            current_block_lines |-> <<line>>])
             ELSE HunkLoop(lines, i + 1,
                           [st EXCEPT !.current_block_lines = Append(@, line)])

\* a plausible slip: the last accumulated block is never added
SplitDropsLastBlock(diff_content) ==
    IF diff_content = "" THEN <<>>
    ELSE HunkLoop(SplitLines(diff_content), 1,
                  [hunk_blocks |-> <<>>, current_block_lines |-> <<>>]).hunk_blocks

SplitDiffIntoHunks(diff_content) ==
    IF diff_content = "" THEN <<>>
    ELSE LET st == HunkLoop(SplitLines(diff_content), 1,
                            [hunk_blocks |-> <<>>, current_block_lines |-> <<>>])
         IN  IF st.current_block_lines # <<>>
             THEN Append(st.hunk_blocks, Join(st.current_block_lines, "\n"))
             ELSE st.hunk_blocks

---------------------------------------------------------------------------
(* _log_message, main.py:17-35.  w is the process's I/O so far:            *)
(* w.stdout and w.stderr are the texts written, in order; w.logged is      *)
(* every _log_message call made; w.calls every git command run.            *)

ToStdout(w, src, level, text) ==
    [w EXCEPT !.stdout = Append(@, [src |-> src, level |-> level, text |-> text])]

\* a plausible slip: info messages are gated on the verbosity flag as well
LogMessageInfoGated(w, message, level) ==
    LET w1 == [w EXCEPT !.logged = Append(@, [level |-> level, message |-> message])]
    IN  IF level = "error"
        THEN [w1 EXCEPT !.stderr = Append(@, "Error: " \o message \o "\n")]
        ELSE IF level = "warning"
        THEN [w1 EXCEPT !.stderr = Append(@, "Warning: " \o message \o "\n")]
        ELSE IF _verbose /\ ~_output_json
        THEN ToStdout(w1, "log", level, message \o "\n")
        ELSE w1

\* a plausible slip: the verbose branch forgets the JSON flag
LogMessageVerboseInJson(w, message, level) ==
    LET w1 == [w EXCEPT !.logged = Append(@, [level |-> level, message |-> message])]
    IN  IF level = "error"
        THEN [w1 EXCEPT !.stderr = Append(@, "Error: " \o message \o "\n")]
        ELSE IF level = "warning"
        THEN [w1 EXCEPT !.stderr = Append(@, "Warning: " \o message \o "\n")]
        ELSE IF _verbose
        THEN ToStdout(w1, "log", level, message \o "\n")
        ELSE IF ~_output_json /\ level = "info"
        THEN ToStdout(w1, "log", level, message \o "\n")
        ELSE w1

LogMessage(w, message, level) ==
    LET w1 == [w EXCEPT !.logged = Append(@, [level |-> level, message |-> message])]
    IN  IF level = "error"
        THEN [w1 EXCEPT !.stderr = Append(@, "Error: " \o message \o "\n")]
        ELSE IF level = "warning"
        THEN [w1 EXCEPT !.stderr = Append(@, "Warning: " \o message \o "\n")]
        ELSE IF _verbose /\ ~_output_json
        THEN ToStdout(w1, "log", level, message \o "\n")
        ELSE IF ~_output_json /\ level = "info"
        THEN ToStdout(w1, "log", level, message \o "\n")
        ELSE w1

\* _log_message of git_diff_script.py:10-20, which has no JSON mode
LogMessageScript(w, message, level) ==
    IF level = "error"
    THEN [w EXCEPT !.logged = Append(@, [level |-> level, message |-> message]),
                   !.stderr = Append(@, "Error: " \o message \o "\n")]
    ELSE IF level = "warning"
    THEN [w EXCEPT !.logged = Append(@, [level |-> level, message |-> message]),
                   !.stderr = Append(@, "Warning: " \o message \o "\n")]
    ELSE IF _verbose
    THEN ToStdout([w EXCEPT !.logged = Append(@, [level |-> level,
                                                  message |-> message])],
                  "log", level, message \o "\n")
    ELSE [w EXCEPT !.logged = Append(@, [level |-> level, message |-> message])]

\* print(text), main.py:329 and after
PrintLine(w, text) == ToStdout(w, "print", "print", text \o "\n")

---------------------------------------------------------------------------
(* _execute_git_command, main.py:38-91.  What subprocess.run does is the   *)
(* environment's answer o: o.kind is "run" (the process ran and ended with *)
(* o.returncode, o.stdout, o.stderr), "notfound" (FileNotFoundError) or    *)
(* "fault" (any other exception, its text in o.stderr).                    *)

Digits == "0123456789"

RECURSIVE NatStr(_)
NatStr(n) ==
    IF n < 10 THEN Ch(Digits, n + 1)
    ELSE NatStr(n \div 10) \o Ch(Digits, (n % 10) + 1)

\* str(returncode)
IntStr(n) == IF n < 0 THEN "-" \o NatStr(0 - n) ELSE NatStr(n)

Returned(w, command_parts, o, out, ok) ==
    [w   |-> [w EXCEPT !.calls = Append(@, [cmd |-> command_parts, o |-> o,
                                            out |-> out, ok |-> ok])],
     out |-> out,
     ok  |-> ok]

\* main.py:43: cmd_str
CmdStr(command_parts) == "git " \o Join(command_parts, " ")

\* main.py:57-60: the standard output of the process, logged when verbose
LogGitStdout(w, o) ==
    IF o.stdout # "" /\ _verbose /\ ~_output_json
    THEN LogMessage(w, "  Git STDOUT: " \o Strip(o.stdout), "debug")
    ELSE w

\* main.py:61-62: the standard error of the process, logged when not empty
LogGitStderr(w, o) ==
    IF o.stderr # ""
    THEN LogMessage(w, "  Git STDERR: " \o Strip(o.stderr), "debug")
    ELSE w

\* a plausible slip: exit code 1 counts as success for every command
ProcessEndedAnyExitOne(w, command_parts, o) ==
    IF o.returncode = 1
    THEN Returned(LogMessage(w,
             "Git diff finished with exit code 1 (differences found).",
             "debug"), command_parts, o, Strip(o.stdout), TRUE)
    ELSE IF o.returncode # 0
    THEN Returned(LogMessage(w, "Git command '" \o CmdStr(command_parts)
             \o "' failed with exit code " \o IntStr(o.returncode), "error"),
             command_parts, o, Strip(o.stdout), FALSE)
    ELSE Returned(w, command_parts, o, Strip(o.stdout), TRUE)

\* main.py:64-78: the process ended with o.returncode
ProcessEnded(w, command_parts, o) ==
    IF command_parts[1] = "diff" /\ o.returncode = 1
    THEN Returned(LogMessage(w,
             "Git diff finished with exit code 1 (differences found).",
             "debug"), command_parts, o, Strip(o.stdout), TRUE)
    ELSE IF o.returncode # 0
    THEN Returned(LogMessage(w, "Git command '" \o CmdStr(command_parts)
             \o "' failed with exit code " \o IntStr(o.returncode), "error"),
             command_parts, o, Strip(o.stdout), FALSE)
    ELSE Returned(w, command_parts, o, Strip(o.stdout), TRUE)

\* main.py:48-91: the try statement, w being the output after main.py:44
RunGit(w, command_parts, o) ==
    IF o.kind = "notfound"
    THEN Returned(LogMessage(w,
             "Git command not found. Ensure Git is installed and in your system's PATH.",
             "error"), command_parts, o, "", FALSE)
    ELSE IF o.kind = "fault"
    THEN Returned(LogMessage(w,
             "An unexpected error occurred while running Git command '"
             \o CmdStr(command_parts) \o "': " \o o.stderr, "error"),
             command_parts, o, "", FALSE)
    ELSE ProcessEnded(LogGitStderr(LogGitStdout(w, o), o), command_parts, o)

ExecuteGitCommand(w, command_parts, cwd, o) ==
    RunGit(LogMessage(w, "Executing Git command: '" \o CmdStr(command_parts)
                         \o "' in '" \o cwd \o "'", "debug"),
           command_parts, o)

---------------------------------------------------------------------------
(* _is_binary_file, main.py:94-122.  o1 and o2 are the environment's       *)
(* answers to the first and to the second command (o2 is read only when    *)
(* the second command is run).                                             *)

UnknownRevision == "unknown revision or path not in the working tree"

DiffHead(file_path) == <<"diff", "HEAD", "--", file_path>>

DiffNoIndex(file_path) == <<"diff", "--no-index", "/dev/null", file_path>>

\* main.py:104-111: r1 is what the first command returned; the second
\* command is run when r1 failed with the unknown-revision message
RetryNoIndex(r1, file_path, repo_path, o2) ==
    IF ~r1.ok /\ Contains(r1.out, UnknownRevision)
    THEN ExecuteGitCommand(r1.w, DiffNoIndex(file_path), repo_path, o2)
    ELSE r1

\* the diff _is_binary_file ends up with, main.py:99-111
BinaryProbe(w, file_path, repo_path, o1, o2) ==
    RetryNoIndex(
        ExecuteGitCommand(
            LogMessage(w, "Checking if '" \o file_path \o "' is binary...", "debug"),
            DiffHead(file_path), repo_path, o1),
        file_path, repo_path, o2)

\* a plausible slip: the text is read whether or not the command succeeded
ClassifyIgnoresSuccess(r, file_path) ==
    IF Contains(r.out, "Binary files ") /\ Contains(r.out, " differ")
    THEN [w |-> LogMessage(r.w, "'" \o file_path \o "' identified as binary.",
                           "debug"),
          result |-> TRUE]
    ELSE [w |-> LogMessage(r.w, "'" \o file_path \o "' not identified as binary.",
                           "debug"),
          result |-> FALSE]

\* main.py:113-122: r is the diff and the success flag the probe ended with
Classify(r, file_path) ==
    IF r.ok /\ Contains(r.out, "Binary files ") /\ Contains(r.out, " differ")
    THEN [w |-> LogMessage(r.w, "'" \o file_path \o "' identified as binary.",
                           "debug"),
          result |-> TRUE]
    ELSE [w |-> LogMessage(r.w, "'" \o file_path \o "' not identified as binary.",
                           "debug"),
          result |-> FALSE]

IsBinaryFile(w, file_path, repo_path, o1, o2) ==
    Classify(BinaryProbe(w, file_path, repo_path, o1, o2), file_path)

---------------------------------------------------------------------------
(* create_json_output_data, main.py:165-185, and json.dumps.               *)
(* all_file_diffs is the dict of main.py:334 as the sequence of its items  *)
(* in insertion order, each [path, status, diff].                          *)

Keys(d) == [i \in 1..Len(d) |-> d[i].path]

HasKey(d, key) == \E i \in 1..Len(d) : d[i].path = key

Lookup(d, key) == d[CHOOSE i \in 1..Len(d) : d[i].path = key]

\* d[key] = {"status": status, "diff": diff}: a key already there keeps its place
DictSet(d, key, status, diff) ==
    LET item == [path |-> key, status |-> status, diff |-> diff]
    IN  IF HasKey(d, key)
        THEN [i \in 1..Len(d) |-> IF d[i].path = key THEN item ELSE d[i]]
        ELSE Append(d, item)

\* x put into the ascending sequence sorted
RECURSIVE InsertSorted(_, _)
InsertSorted(sorted, x) ==
    IF sorted = <<>> THEN <<x>>
    ELSE IF StrLess(x, Head(sorted)) THEN <<x>> \o sorted
    ELSE <<Head(sorted)>> \o InsertSorted(Tail(sorted), x)

RECURSIVE SortFrom(_, _, _)
SortFrom(keys, i, acc) ==
    IF i > Len(keys) THEN acc
    ELSE SortFrom(keys, i + 1, InsertSorted(acc, keys[i]))

\* a plausible slip: the keys are taken in insertion order
SortedKeepsOrder(keys) == keys

\* sorted(keys)
Sorted(keys) == SortFrom(keys, 1, <<>>)

CreateJsonOutputData(d) ==
    LET sorted == Sorted(Keys(d))
    IN  [i \in 1..Len(sorted) |->
            LET fpath == sorted[i]
                full_raw_diff_text == Lookup(d, fpath).diff
            IN  [filename |-> fpath,
                 ext |-> SplitExt(fpath),
                 all_diffs_as_text |-> full_raw_diff_text,
                 diff_blocks |-> SplitDiffIntoHunks(full_raw_diff_text)]]

JsonChar(c) ==
    IF c = "\"" THEN "\\\""
    ELSE IF c = "\\" THEN "\\\\"
    ELSE IF c = "\n" THEN "\\n"
    ELSE IF c = "\r" THEN "\\r"
    ELSE IF c = "\t" THEN "\\t"
    ELSE IF c = "\f" THEN "\\f"
    ELSE c

RECURSIVE JsonEscape(_)
JsonEscape(s) ==
    IF Len(s) = 0 THEN ""
    ELSE IF Len(s) = 1 THEN JsonChar(s)
    ELSE LET h == Len(s) \div 2
         IN  JsonEscape(SubSeq(s, 1, h)) \o JsonEscape(SubSeq(s, h + 1, Len(s)))

\* json.dumps of a str
JsonStr(s) == "\"" \o JsonEscape(s) \o "\""

\* json.dumps(list of str, indent=2) at the depth of "diff_blocks"
JsonBlocks(blocks) ==
    IF blocks = <<>> THEN "[]"
    ELSE "[\n"
         \o Join([i \in 1..Len(blocks) |-> "      " \o JsonStr(blocks[i])], ",\n")
         \o "\n    ]"

JsonEntry(e) ==
    "  {\n"
    \o "    \"filename\": " \o JsonStr(e.filename) \o ",\n"
    \o "    \"ext\": " \o JsonStr(e.ext) \o ",\n"
    \o "    \"all_diffs_as_text\": " \o JsonStr(e.all_diffs_as_text) \o ",\n"
    \o "    \"diff_blocks\": " \o JsonBlocks(e.diff_blocks) \o "\n"
    \o "  }"

\* json.dumps(data) and json.dumps(data, indent=2) of the list of entries
JsonDumps(data) ==
    IF data = <<>> THEN "[]"
    ELSE "[\n" \o Join([i \in 1..Len(data) |-> JsonEntry(data[i])], ",\n") \o "\n]"

---------------------------------------------------------------------------
(* The status-parsing loop of run_diff_logic, main.py:308-325.             *)

\* the path of main.py:318-323
StatusPath(status_code, file_path_raw) ==
    IF Contains(file_path_raw, " -> ")
       /\ (StartsWith(status_code, "R") \/ StartsWith(status_code, "C"))
    THEN Strip(SplitSep(file_path_raw, " -> ")[2])
    ELSE Strip(file_path_raw)

RECURSIVE ParseLoop(_, _, _, _)
ParseLoop(lines, i, w, info) ==
    IF i > Len(lines) THEN [w |-> w, info |-> info]
    ELSE LET line == lines[i]
             parts == SplitWs1(line)
         IN  IF Len(parts) < 2
             THEN ParseLoop(lines, i + 1,
                            LogMessage(w, "Skipping malformed status line: '"
                                          \o line \o "'", "debug"),
                            info)
             ELSE ParseLoop(lines, i + 1, w,
                            Append(info, [status |-> parts[1],
                                          path |-> StatusPath(parts[1], parts[2])]))

ParseStatus(w, stdout_status) ==
    ParseLoop(SplitLines(Strip(stdout_status)), 1, w, <<>>)

---------------------------------------------------------------------------
(* The file system under the repository, as os.path and os.walk see it.    *)

normalized_repo_path == "/repo"

\* directories of the working tree: d is a plain untracked directory,
\* s/foo.py an untracked symbolic link to a directory
Directories == {"/repo/d", "/repo/s/foo.py"}

\* os.path.join(a, b)
JoinPath(a, b) ==
    IF StartsWith(b, "/") THEN b
    ELSE IF a = "" \/ Ch(a, Len(a)) = "/" THEN a \o b
    ELSE a \o "/" \o b

\* p without its trailing slashes
RECURSIVE NoTrailingSlash(_)
NoTrailingSlash(p) ==
    IF Len(p) > 1 /\ Ch(p, Len(p)) = "/"
    THEN NoTrailingSlash(SubSeq(p, 1, Len(p) - 1))
    ELSE p

\* os.path.isdir(full_path)
IsDir(full_path) == NoTrailingSlash(full_path) \in Directories

\* os.walk(full_path): the (root, file) pairs in the order they are visited
Walk(full_path) ==
    IF NoTrailingSlash(full_path) = "/repo/d"
    THEN <<[root |-> full_path, file |-> "foo.py"]>>
    ELSE IF NoTrailingSlash(full_path) = "/repo/s/foo.py"
    THEN <<[root |-> full_path, file |-> "x.py"],
           [root |-> full_path, file |-> "n.txt"]>>
    ELSE <<>>

\* os.path.relpath(path, start) of a path under start
RelPath(path, start) ==
    IF StartsWith(path, start \o "/")
    THEN SubSeq(path, Len(start) + 2, Len(path))
    ELSE path

---------------------------------------------------------------------------
(* check_and_handle_untracked_change, main.py:188-265, and the loop body   *)
(* of run_diff_logic, main.py:336-358.                                     *)

\* a plausible slip: a successful fetch is stored even when its text is empty
RecordDiffStoresEmpty(r, d, fpath, status, warning) ==
    IF r.ok
    THEN [w |-> r.w, d |-> DictSet(d, fpath, status, Strip(r.out)),
          added |-> TRUE]
    ELSE [w |-> LogMessage(r.w, warning, "warning"), d |-> d, added |-> FALSE]

\* main.py:247-256 and 262-265 (and 226-236): r is what the diff command
\* returned; a diff that is not empty is stored under fpath
RecordDiff(r, d, fpath, status, warning) ==
    IF r.ok /\ Strip(r.out) # ""
    THEN [w |-> r.w, d |-> DictSet(d, fpath, status, Strip(r.out)),
          added |-> TRUE]
    ELSE IF ~r.ok
    THEN [w |-> LogMessage(r.w, warning, "warning"), d |-> d, added |-> FALSE]
    ELSE [w |-> r.w, d |-> d, added |-> FALSE]

\* main.py:244-256 (and 222-236): the diff of an untracked regular file
FetchUntracked(w, d, fpath, o) ==
    RecordDiff(ExecuteGitCommand(w, DiffNoIndex(fpath), normalized_repo_path, o),
               d, fpath, "Untracked",
               "Could not get diff for untracked file " \o fpath \o ". Skipping.")

\* main.py:258-265: the diff of a tracked path against HEAD
FetchTracked(w, d, status, fpath, o) ==
    RecordDiff(ExecuteGitCommand(w, DiffHead(fpath), normalized_repo_path, o),
               d, fpath, status,
               "Could not get diff for " \o fpath \o ". Skipping.")

\* main.py:340-341: the record is kept by the filename filter
PassesNameFilter(fpath) ==
    ~(filter_filename # "" /\ filter_filename # Basename(fpath))

\* main.py:343-345 and 203-205: the path is kept by the extension filter
PassesExtensionFilter(path) ==
    ~(file_extensions # {} /\ Lower(SplitExt(path)) \notin file_extensions)

\* a plausible slip: sub-files are not checked against the extension filter
SubFilePassesExtensionFilterAlways(path) == TRUE

\* main.py:203-210, the extension filter applied to a file found by the walk
SubFilePassesExtensionFilter(path) == PassesExtensionFilter(path)

---------------------------------------------------------------------------
(* State common to every specification.                                    *)

NoIO == [stdout |-> <<>>, stderr |-> <<>>, logged |-> <<>>, calls |-> <<>>]

\* run_diff_logic is not running
RunIdle ==
    /\ file_extensions = {}
    /\ filter_filename = ""
    /\ path_exists = TRUE
    /\ git_dir_exists = TRUE
    /\ pc = "idle"
    /\ changed_files_info = <<>>
    /\ idx = 0
    /\ walk = <<>>
    /\ all_file_diffs = <<>>
    /\ ret = -1

FlagsOff ==
    /\ _verbose = FALSE
    /\ _ignore_binaries = FALSE
    /\ _output_json = FALSE

FlagsInit ==
    /\ _verbose \in BOOLEAN
    /\ _ignore_binaries \in BOOLEAN
    /\ _output_json \in BOOLEAN

---------------------------------------------------------------------------
(* SpecSplit: _split_diff_into_hunks called on texts built from pieces.    *)

\* "+a\fb" is an added line holding a form feed
DiffPieces ==
    {"diff --git a b", "@@ -1 +1 @@", "@@", "+x", "+a\fb", " ", "\n", "\r"}

SplitInit ==
    /\ FlagsOff /\ RunIdle /\ io = NoIO
    /\ call = [fn |-> "split", text |-> "", n |-> 0, done |-> FALSE,
               blocks |-> <<>>]

SplitAddPiece ==
    /\ call.fn = "split" /\ ~call.done /\ call.n < MaxPieces
    /\ \E p \in DiffPieces :
          call' = [call EXCEPT !.text = @ \o p, !.n = @ + 1]
    /\ UNCHANGED <<flagVars, runVars, io>>

SplitCall ==
    /\ call.fn = "split" /\ ~call.done
    /\ call' = [call EXCEPT !.done = TRUE,
                            !.blocks = SplitDiffIntoHunks(call.text)]
    /\ UNCHANGED <<flagVars, runVars, io>>

SplitNext == SplitAddPiece \/ SplitCall

SpecSplit == SplitInit /\ [][SplitNext]_vars

\* the blocks returned for the text of a finished call
SplitReturned == call.fn = "split" /\ call.done

\* the text has "\n" as its only line boundary and does not end with one
PlainLines(text) ==
    /\ \A i \in 1..Len(text) : Ch(text, i) \in LineBreaks => Ch(text, i) = "\n"
    /\ (text # "" => Ch(text, Len(text)) # "\n")

\* C1 as stated: for any input text, joining the returned blocks with "\n"
\* reproduces the text exactly, and the empty text yields no block.
C1_RoundTripAnyText ==
    SplitReturned =>
        /\ Join(call.blocks, "\n") = call.text
        /\ (call.text = "" => call.blocks = <<>>)

\* C1 witness: the diff of a line that holds a form feed came back as one
\* block in which the form feed is a newline; a text ending with a newline
\* loses it
C1_Witness ==
    /\ SplitReturned
    /\ \/ /\ call.text = "@@ -1 +1 @@\n+a\fb"
          /\ call.blocks = <<"@@ -1 +1 @@\n+a\nb">>
       \/ /\ call.text = "+x\n"
          /\ call.blocks = <<"+x">>

\* The round trip on the texts whose only line boundaries are "\n" and
\* which do not end with one: joining the blocks returns the text.
RoundTripPlainLines ==
    (SplitReturned /\ PlainLines(call.text)) =>
        /\ Join(call.blocks, "\n") = call.text
        /\ (call.text = "" => call.blocks = <<>>)

---------------------------------------------------------------------------
(* SpecExec: _execute_git_command called once, on any command and answer.  *)

NotFound == [kind |-> "notfound", returncode |-> 0, stdout |-> "", stderr |-> ""]

Fault == [kind |-> "fault", returncode |-> 0, stdout |-> "",
          stderr |-> "[Errno 13] Permission denied: 'git'"]

Ran(returncode, out, err) ==
    [kind |-> "run", returncode |-> returncode, stdout |-> out, stderr |-> err]

ExecCommands ==
    {<<"status", "--porcelain">>, DiffHead("a.py"), DiffNoIndex("a.py"),
     <<"diff-index", "HEAD">>}

ExecOutcomes ==
    {NotFound, Fault}
    \cup {Ran(rc, out, err) : rc \in {0, 1, 2, 128, -9},
                              out \in {"", "\n M a.py \n", "+x"},
                              err \in {"", "fatal: bad revision\n"}}

ExecInit ==
    /\ FlagsInit /\ RunIdle /\ io = NoIO
    /\ call = [fn |-> "exec", done |-> FALSE]

ExecCall ==
    /\ call.fn = "exec" /\ ~call.done
    /\ \E cmd \in ExecCommands, o \in ExecOutcomes :
          LET r == ExecuteGitCommand(io, cmd, normalized_repo_path, o)
          IN  /\ io' = r.w
              /\ call' = [fn |-> "exec", done |-> TRUE, cmd |-> cmd, o |-> o,
                          out |-> r.out, ok |-> r.ok]
    /\ UNCHANGED <<flagVars, runVars>>

ExecNext == ExecCall

SpecExec == ExecInit /\ [][ExecNext]_vars

\* t is s without its leading and trailing white space
IsTrimOf(t, s) ==
    /\ (t # "" => Ch(t, 1) \notin Whitespace /\ Ch(t, Len(t)) \notin Whitespace)
    /\ \E i \in 1..(Len(s) + 1) :
          /\ SubSeq(s, i, i + Len(t) - 1) = t
          /\ \A k \in 1..Len(s) :
                (k < i \/ k > i + Len(t) - 1) => Ch(s, k) \in Whitespace

\* the cases C2 lists as failures
ExecFailureCase(cmd, o) ==
    \/ o.kind = "notfound"
    \/ o.kind = "fault"
    \/ /\ o.kind = "run"
       /\ o.returncode # 0
       /\ ~(cmd[1] = "diff" /\ o.returncode = 1)

\* C2: _execute_git_command returns succeeded = false exactly when the
\* executable is not found, an unexpected fault occurs, or the exit code is
\* nonzero and the command is not a "diff" command ending with exit code 1;
\* in every other case it returns true with the trimmed standard output.
C2_SuccessExactly ==
    (call.fn = "exec" /\ call.done) =>
        /\ call.ok = ~ExecFailureCase(call.cmd, call.o)
        /\ (call.ok => IsTrimOf(call.out, call.o.stdout))

\* C2 witness: a diff command ended with exit code 1 and padded output, and
\* was returned as a success
C2_Witness ==
    /\ call.fn = "exec" /\ call.done
    /\ call.cmd[1] = "diff" /\ call.o.kind = "run" /\ call.o.returncode = 1
    /\ call.o.stdout = "\n M a.py \n"
    /\ call.ok /\ call.out = "M a.py"

---------------------------------------------------------------------------
(* SpecBin: _is_binary_file called once, on any pair of answers.           *)

TextDiff == "diff --git a/a.py b/a.py\n@@ -1 +1 @@\n-x\n+y\n"

BinaryDiff == "diff --git a/i.png b/i.png\nBinary files a/i.png and b/i.png differ\n"

UnknownRevisionText ==
    "fatal: ambiguous argument 'HEAD': " \o UnknownRevision \o ".\n"

BinOutcomes ==
    {NotFound, Fault}
    \cup {Ran(rc, out, err) :
             rc \in {0, 1, 128},
             out \in {"", TextDiff, BinaryDiff, UnknownRevisionText,
                      "Binary files a and b are equal\n", "-they differ\n",
                      UnknownRevisionText \o BinaryDiff},
             err \in {"", UnknownRevisionText}}

BinInit ==
    /\ FlagsInit /\ RunIdle /\ io = NoIO
    /\ call = [fn |-> "binary", done |-> FALSE]

BinCall ==
    /\ call.fn = "binary" /\ ~call.done
    /\ \E o1 \in BinOutcomes, o2 \in BinOutcomes :
          LET r == IsBinaryFile(io, "a.py", normalized_repo_path, o1, o2)
          IN  /\ io' = r.w
              /\ call' = [fn |-> "binary", done |-> TRUE, o1 |-> o1,
                          result |-> r.result]
    /\ UNCHANGED <<flagVars, runVars>>

BinNext == BinCall

SpecBin == BinInit /\ [][BinNext]_vars

\* the last git command run
LastCall == io.calls[Len(io.calls)]

HasBinaryMarker(text) == Contains(text, "Binary files ") /\ Contains(text, " differ")

\* C9: _is_binary_file returns true if and only if the diff it retrieved
\* succeeded and its text contains both "Binary files " and " differ"; so a
\* failed command, or a text of +/- lines only, classifies as not binary.
C9_BinaryIffMarker ==
    (call.fn = "binary" /\ call.done) =>
        /\ call.result = (LastCall.ok /\ HasBinaryMarker(LastCall.out))
        /\ (~LastCall.ok => ~call.result)
        /\ (LastCall.out = Strip(TextDiff) => ~call.result)

\* C9 witness: a classification that returned true, after a retry
C9_Witness ==
    /\ call.fn = "binary" /\ call.done /\ call.result
    /\ Len(io.calls) = 2
    /\ LastCall.out = Strip(BinaryDiff)

---------------------------------------------------------------------------
(* SpecParse: the status-parsing loop on reports built from lines that     *)
(* "git status --porcelain" prints (a path with a space in it is quoted).  *)

StatusLines ==
    {"M  a.py\n", " M b.txt\n", "?? d/\n", "junk\n",
     "R  a.py -> c.py\n", "C  a.py ->  c.py \n",
     "R  a.py -> \"b -> c.py\"\n", "D  \"x -> y\"\n"}

ParseInit ==
    /\ FlagsOff /\ RunIdle /\ io = NoIO
    /\ call = [fn |-> "parse", text |-> "", n |-> 0, done |-> FALSE,
               info |-> <<>>]

ParseAddLine ==
    /\ call.fn = "parse" /\ ~call.done /\ call.n < MaxStatusLines
    /\ \E l \in StatusLines :
          call' = [call EXCEPT !.text = @ \o l, !.n = @ + 1]
    /\ UNCHANGED <<flagVars, runVars, io>>

ParseCall ==
    /\ call.fn = "parse" /\ ~call.done
    /\ LET p == ParseStatus(io, Strip(call.text))
       IN  /\ io' = p.w
           /\ call' = [call EXCEPT !.done = TRUE, !.info = p.info]
    /\ UNCHANGED <<flagVars, runVars>>

ParseNext == ParseAddLine \/ ParseCall

SpecParse == ParseInit /\ [][ParseNext]_vars

\* the lines of the report that split into a status code and a remainder
RecordLines(text) ==
    SelectSeq(SplitLines(Strip(text)), LAMBDA l : Len(SplitWs1(l)) >= 2)

\* C3 as stated: every change record has a non-empty path, and a line whose
\* status code begins with R or C and whose remainder contains " -> " yields
\* the trimmed text after the separator, never a fragment before or between
\* separators.
C3_RenamesResolveToNewPath ==
    (call.fn = "parse" /\ call.done) =>
        LET kept == RecordLines(call.text)
        IN  /\ Len(call.info) = Len(kept)
            /\ \A i \in 1..Len(kept) :
                  LET code == SplitWs1(kept[i])[1]
                      rest == SplitWs1(kept[i])[2]
                      at   == Find(rest, " -> ", 1)
                  IN  /\ call.info[i].path # ""
                      /\ (at # 0 /\ (StartsWith(code, "R") \/ StartsWith(code, "C"))
                            => call.info[i].path
                                 = Strip(SubSeq(rest, at + 4, Len(rest))))

\* C3 witness: the rename of a.py to a file named "b -> c.py", which git
\* prints quoted, was recorded under the fragment between the separators
C3_Witness ==
    /\ call.fn = "parse" /\ call.done
    /\ call.text = "R  a.py -> \"b -> c.py\"\n"
    /\ call.info = <<[status |-> "R", path |-> "\"b"]>>

---------------------------------------------------------------------------
(* Spec: one run of run_diff_logic, main.py:268-388.                       *)

\* the answers of git to "status --porcelain", by the lines they hold
AllStatusReports ==
    {"",
     "junk\n",
     "M  foo.py\n?? bar.txt\n",
     "?? s/foo.py\n",
     "?? d/\n M foo.py\n",
     "R  old.py -> NEW.PY\n",
     "?? zz.txt\nM  foo.py\n?? bar.txt\n"}

StatusReports == {r \in AllStatusReports : Len(SplitLines(r)) <= MaxLines}

NoOutcome == NotFound

StatusOutcomes ==
    {NotFound, Ran(128, "", "fatal: not a git repository\n")}
    \cup {Ran(0, r, "") : r \in StatusReports}

\* the answers of git to "diff HEAD -- path": fatal messages go to stderr
HeadOutcomes ==
    {Ran(0, "", ""), Ran(0, TextDiff, ""), Ran(0, BinaryDiff, ""),
     Ran(128, "", UnknownRevisionText)}

\* the answers of git to "diff --no-index /dev/null path"
NoIndexOutcomes ==
    {Ran(0, "", ""), Ran(1, TextDiff, ""), Ran(1, BinaryDiff, ""),
     Ran(128, "", "fatal: cannot read the file\n")}

\* the answers read by _is_binary_file when it is called at all
ProbeOutcomes == IF _ignore_binaries THEN HeadOutcomes ELSE {NoOutcome}

\* the first answer makes _is_binary_file run its second command
RetryRuns(o1) ==
    LET r == ExecuteGitCommand(NoIO, DiffHead(""), "", o1)
    IN  ~r.ok /\ Contains(r.out, UnknownRevision)

\* the answers to the second command of _is_binary_file, when it is run
RetryOutcomes(o1) ==
    IF _ignore_binaries /\ RetryRuns(o1) THEN NoIndexOutcomes ELSE {NoOutcome}

Init ==
    /\ FlagsInit
    /\ file_extensions \in {{}, {".py"}}
    /\ filter_filename \in {"", "foo.py"}
    /\ path_exists \in BOOLEAN
    /\ git_dir_exists \in BOOLEAN
    /\ (~path_exists => ~git_dir_exists)
    /\ pc = "start"
    /\ changed_files_info = <<>>
    /\ idx = 0
    /\ walk = <<>>
    /\ all_file_diffs = <<>>
    /\ io = NoIO
    /\ ret = -1
    /\ call = [fn |-> "run"]

\* a plausible slip: the notice is printed in JSON mode too
PrintNoChangesAsText(w) == PrintLine(w, "No changes detected.")

\* main.py:327-332 and 360-364: nothing to show
PrintNoChanges(w) ==
    IF ~_output_json THEN PrintLine(w, "No changes detected.")
    ELSE PrintLine(w, JsonDumps(<<>>))

\* a plausible slip: the report's text is tested in place of the flag
StatusFetchFailedWhenEmpty(r) == r.out = ""

\* main.py:304: the status command failed
StatusFetchFailed(r) == ~r.ok

\* main.py:308-332: p is the parsed status report
AfterParse(p) ==
    IF p.info = <<>>
    THEN /\ io' = PrintNoChanges(p.w)
         /\ ret' = 0 /\ pc' = "done"
         /\ UNCHANGED <<changed_files_info, idx>>
    ELSE /\ io' = p.w
         /\ changed_files_info' = p.info
         /\ idx' = 1 /\ pc' = "loop"
         /\ UNCHANGED ret

\* main.py:304-332: r is what the status command returned
AfterStatus(r) ==
    IF StatusFetchFailed(r)
    THEN /\ io' = LogMessage(r.w, "Failed to get Git status. Exiting.", "error")
         /\ ret' = 1 /\ pc' = "done"
         /\ UNCHANGED <<changed_files_info, idx>>
    ELSE AfterParse(ParseStatus(r.w, r.out))

\* main.py:283-332: w0 is the output after the opening message
CheckRepository(w0, o) ==
    IF ~path_exists
    THEN /\ io' = LogMessage(w0, "Repository path '" \o normalized_repo_path
                                 \o "' not found.", "error")
         /\ ret' = 1 /\ pc' = "done"
         /\ UNCHANGED <<changed_files_info, idx>>
    ELSE IF ~git_dir_exists
    THEN /\ io' = LogMessage(w0, "'" \o normalized_repo_path
                    \o "' is not a Git repository (missing .git directory).",
                    "error")
         /\ ret' = 1 /\ pc' = "done"
         /\ UNCHANGED <<changed_files_info, idx>>
    ELSE AfterStatus(ExecuteGitCommand(w0, <<"status", "--porcelain">>,
                                       normalized_repo_path, o))

\* main.py:281-332: the checks of the repository, the status command and
\* the parsing of its report
Begin ==
    /\ pc = "start"
    /\ \E o \in StatusOutcomes :
          CheckRepository(LogMessage(io, "--- Analyzing differences in repository: "
                                         \o normalized_repo_path \o " ---", "info"),
                          o)
    /\ UNCHANGED <<flagVars, file_extensions, filter_filename, path_exists,
                   git_dir_exists, walk, all_file_diffs, call>>

\* the loop of main.py:336 moves to its next record, or ends
NextRecord ==
    /\ idx' = idx + 1
    /\ pc' = IF idx + 1 > Len(changed_files_info) THEN "render" ELSE "loop"

\* main.py:247-256 and 262-265: f is what the fetch of the diff left
KeepDiff(f) ==
    /\ io' = f.w
    /\ all_file_diffs' = f.d
    /\ NextRecord
    /\ UNCHANGED walk

\* main.py:356-358 and 188-265 for one record: w1 is the output so far
HandleChange(w1, fpath, status) ==
    IF status = "??" /\ IsDir(JoinPath(normalized_repo_path, fpath))
    THEN /\ io' = LogMessage(w1, "\n--- Untracked Directory: "
                                 \o fpath \o " ---", "info")
         /\ walk' = [dir |-> fpath,
                     files |-> Walk(JoinPath(normalized_repo_path, fpath)),
                     dir_had_content_diff |-> FALSE]
         /\ pc' = "walk"
         /\ UNCHANGED <<idx, all_file_diffs>>
    ELSE IF status = "??"
    THEN \E o3 \in NoIndexOutcomes :
             KeepDiff(FetchUntracked(w1, all_file_diffs, fpath, o3))
    ELSE \E o3 \in HeadOutcomes :
             KeepDiff(FetchTracked(w1, all_file_diffs, status, fpath, o3))

\* main.py:351-358: b is the answer of _is_binary_file, read only when
\* binaries are ignored
AfterBinaryCheck(b, fpath, status) ==
    IF _ignore_binaries /\ b.result
    THEN /\ io' = LogMessage(b.w, "Ignoring binary file: '" \o fpath \o "'", "info")
         /\ NextRecord
         /\ UNCHANGED <<walk, all_file_diffs>>
    ELSE HandleChange(IF _ignore_binaries THEN b.w ELSE io, fpath, status)

\* main.py:336-358 for the record fpath, status
ProcessChange(fpath, status) ==
    IF ~PassesNameFilter(fpath)
    THEN /\ NextRecord
         /\ UNCHANGED <<io, walk, all_file_diffs>>
    ELSE IF ~PassesExtensionFilter(fpath)
    THEN /\ io' = LogMessage(io, "Skipping '" \o fpath
                                 \o "' due to extension filter.", "debug")
         /\ NextRecord
         /\ UNCHANGED <<walk, all_file_diffs>>
    ELSE \E o1 \in ProbeOutcomes : \E o2 \in RetryOutcomes(o1) :
             AfterBinaryCheck(IsBinaryFile(io, fpath, normalized_repo_path, o1, o2),
                              fpath, status)

\* main.py:336-358 for one record, up to the start of the walk when the
\* record is an untracked directory
ProcessRecord ==
    /\ pc = "loop"
    /\ ProcessChange(changed_files_info[idx].path, changed_files_info[idx].status)
    /\ UNCHANGED <<flagVars, file_extensions, filter_filename, path_exists,
                   git_dir_exists, changed_files_info, ret, call>>

\* main.py:226-236: f is what the fetch of the sub-file's diff left
KeepSubFileDiff(f) ==
    /\ io' = f.w
    /\ all_file_diffs' = f.d
    /\ walk' = [walk EXCEPT !.files = Tail(@),
                            !.dir_had_content_diff = @ \/ f.added]

\* main.py:212-236: b is the answer of _is_binary_file, read only when
\* binaries are ignored
AfterSubFileBinaryCheck(b, sub_file_path_relative) ==
    IF _ignore_binaries /\ b.result
    THEN /\ io' = LogMessage(b.w, "Ignoring binary file: '"
                      \o sub_file_path_relative \o "'", "info")
         /\ walk' = [walk EXCEPT !.files = Tail(@)]
         /\ UNCHANGED all_file_diffs
    ELSE \E o3 \in NoIndexOutcomes :
             KeepSubFileDiff(FetchUntracked(IF _ignore_binaries THEN b.w ELSE io,
                                            all_file_diffs,
                                            sub_file_path_relative, o3))

\* main.py:203-236 for the file sub_file_path_relative
ProcessSubFile(sub_file_path_relative) ==
    IF ~SubFilePassesExtensionFilter(sub_file_path_relative)
    THEN /\ io' = LogMessage(io, "Skipping untracked sub-file '"
                      \o sub_file_path_relative
                      \o "' due to extension filter.", "debug")
         /\ walk' = [walk EXCEPT !.files = Tail(@)]
         /\ UNCHANGED all_file_diffs
    ELSE \E o1 \in ProbeOutcomes : \E o2 \in RetryOutcomes(o1) :
             AfterSubFileBinaryCheck(
                 IsBinaryFile(io, sub_file_path_relative, normalized_repo_path,
                              o1, o2),
                 sub_file_path_relative)

\* main.py:198-236: one file found by os.walk
WalkFile ==
    /\ pc = "walk" /\ walk.files # <<>>
    /\ ProcessSubFile(RelPath(JoinPath(Head(walk.files).root, Head(walk.files).file),
                              normalized_repo_path))
    /\ UNCHANGED <<flagVars, file_extensions, filter_filename, path_exists,
                   git_dir_exists, pc, changed_files_info, idx, ret, call>>

\* main.py:237-242: the end of the walk of an untracked directory
EndWalk ==
    /\ pc = "walk" /\ walk.files = <<>>
    /\ LET w1 == IF ~walk.dir_had_content_diff /\ _verbose /\ ~_output_json
                 THEN LogMessage(io, "(No untracked files with content found in "
                                     \o walk.dir \o ")", "info")
                 ELSE io
       IN  io' = LogMessage(w1, "----- End Untracked Directory: " \o walk.dir
                                \o " -----", "info")
    /\ walk' = <<>>
    /\ NextRecord
    /\ UNCHANGED <<flagVars, file_extensions, filter_filename, path_exists,
                   git_dir_exists, changed_files_info, all_file_diffs, ret, call>>

\* main.py:373-382: the text listing of the entries
RECURSIVE PrintEntries(_, _, _, _)
PrintEntries(w, d, sorted_files, i) ==
    IF i > Len(sorted_files) THEN w
    ELSE LET fpath == sorted_files[i]
             diff_info == Lookup(d, fpath)
             w1 == PrintLine(w, "\n--- " \o fpath \o " (" \o diff_info.status
                                \o ") ---")
             w2 == PrintLine(w1, diff_info.diff)
             w3 == PrintLine(w2, "-----")
         IN  PrintEntries(w3, d, sorted_files, i + 1)

\* main.py:360-388: the rendering of what was collected
Render ==
    /\ pc = "render"
    /\ io' = IF all_file_diffs = <<>>
             THEN PrintNoChanges(io)
             ELSE LogMessage(
                      IF _output_json
                      THEN PrintLine(io, JsonDumps(CreateJsonOutputData(all_file_diffs)))
                      ELSE PrintEntries(io, all_file_diffs,
                                        Sorted(Keys(all_file_diffs)), 1),
                      "--- Diff analysis completed for " \o normalized_repo_path
                      \o " ---", "info")
    /\ ret' = 0
    /\ pc' = "done"
    /\ UNCHANGED <<flagVars, file_extensions, filter_filename, path_exists,
                   git_dir_exists, changed_files_info, idx, walk, all_file_diffs,
                   call>>

Next == Begin \/ ProcessRecord \/ WalkFile \/ EndWalk \/ Render

Spec == Init /\ [][Next]_vars

---------------------------------------------------------------------------
(* Properties of a run of run_diff_logic (Spec).                           *)

Done == pc = "done"

\* the answer of git to the status command, once it was run
StatusAnswer == io.calls[1].o

\* the status command was run and did not end with exit code 0
StatusFailed ==
    /\ io.calls # <<>>
    /\ (StatusAnswer.kind # "run" \/ StatusAnswer.returncode # 0)

\* the run got past the status command
Collected == Done /\ path_exists /\ git_dir_exists /\ ~StatusFailed

\* the texts written by print, in order
Printed == SelectSeq(io.stdout, LAMBDA x : x.src = "print")

KeySet == {all_file_diffs[i].path : i \in 1..Len(all_file_diffs)}

\* the strings of S in ascending order of code points
RECURSIVE Ascending(_)
Ascending(S) ==
    IF S = {} THEN <<>>
    ELSE LET m == CHOOSE x \in S : \A y \in S \ {x} : StrLess(x, y)
         IN  <<m>> \o Ascending(S \ {m})

\* C4 as stated: with a filename filter, every path in the rendered output,
\* the files found in an untracked directory included, has the filter as its
\* final component.
C4_NameFilterOnEveryPath ==
    (Done /\ filter_filename # "") =>
        \A p \in KeySet : Basename(p) = filter_filename

\* C4 witness: under the filter "foo.py" the files of the untracked
\* directory s/foo.py were collected and rendered
C4_Witness ==
    /\ Done /\ ret = 0 /\ filter_filename = "foo.py"
    /\ KeySet = {"s/foo.py/x.py", "s/foo.py/n.txt"}
    /\ Len(Printed) \in {1, 6}

\* C5: with an extension filter, no path whose lower-cased extension is
\* outside the filter set is ever collected or rendered, whether it comes
\* from a status record or from the walk of an untracked directory.
C5_ExtensionFilterOnEveryPath ==
    file_extensions # {} =>
        \A p \in KeySet : Lower(SplitExt(p)) \in file_extensions

\* C5 witness: under the filter {".py"} a run rendered a file found in an
\* untracked directory, and another a record whose extension is upper case
C5_Witness ==
    /\ Done /\ ret = 0 /\ file_extensions = {".py"}
    /\ ("s/foo.py/x.py" \in KeySet \/ "NEW.PY" \in KeySet)
    /\ Len(io.logged) > 6

\* what print writes for the entries in ascending order of path
ExpectedText(A) ==
    [k \in 1..(3 * Len(A)) |->
        LET e == Lookup(all_file_diffs, A[(k + 2) \div 3])
        IN  [src |-> "print", level |-> "print",
             text |-> IF k % 3 = 1
                      THEN "\n--- " \o e.path \o " (" \o e.status \o ") ---\n"
                      ELSE IF k % 3 = 2 THEN e.diff \o "\n"
                      ELSE "-----\n"]]

ExpectedJson(A) ==
    <<[src |-> "print", level |-> "print",
       text |-> JsonDumps([k \in 1..Len(A) |->
                   LET e == Lookup(all_file_diffs, A[k])
                   IN  [filename |-> e.path, ext |-> SplitExt(e.path),
                        all_diffs_as_text |-> e.diff,
                        diff_blocks |-> SplitDiffIntoHunks(e.diff)]]) \o "\n"]>>

\* C6: in JSON mode and in text mode the rendered entries are in ascending
\* order of path, and what is rendered depends on the collected mapping
\* only, not on the order its entries were inserted in.
C6_RenderedInPathOrder ==
    (Collected /\ all_file_diffs # <<>>) =>
        Printed = IF _output_json THEN ExpectedJson(Ascending(KeySet))
                  ELSE ExpectedText(Ascending(KeySet))

\* C6 witness: foo.py was inserted before bar.txt and both were rendered
C6_Witness ==
    /\ Collected
    /\ Keys(all_file_diffs) = <<"foo.py", "bar.txt">>
    /\ Len(Printed) \in {1, 6}

\* C7: run_diff_logic returns 1 exactly when the repository path is
\* missing, it has no .git directory, or the status command fails; every
\* other run goes through all its records and returns 0, whatever number
\* of per-file diffs fail.
C7_ReturnCode ==
    /\ (~Done => ret = -1)
    /\ Done =>
        /\ ret = IF ~path_exists \/ ~git_dir_exists \/ StatusFailed THEN 1 ELSE 0
        /\ (ret = 0 /\ changed_files_info # <<>> =>
                idx = Len(changed_files_info) + 1)

\* the diff commands of the run that failed
FailedFetches == {i \in 2..Len(io.calls) : ~io.calls[i].ok}

\* C7 witness: a run in which two per-file diffs failed returned 0
C7_Witness ==
    /\ Done /\ ret = 0 /\ ~_ignore_binaries
    /\ Cardinality(FailedFetches) >= 2

\* C8: in JSON mode, when nothing was collected (no parseable status line,
\* or every record filtered out, skipped as binary, failed or empty),
\* run_diff_logic writes the literal [] to standard output and returns 0.
C8_EmptyJsonArray ==
    (Collected /\ _output_json /\ all_file_diffs = <<>>) =>
        /\ io.stdout = <<[src |-> "print", level |-> "print", text |-> "[]\n"]>>
        /\ ret = 0

\* C8 witness: a JSON run whose records were all dropped for some reason
\* (filtered, binary, failed, empty) ended with nothing collected
C8_Witness ==
    /\ Collected /\ _output_json /\ all_file_diffs = <<>>
    /\ Len(changed_files_info) = 2
    /\ Len(io.calls) >= 3

\* the _log_message calls of the given levels, as written to a stream
RECURSIVE StderrOf(_)
StderrOf(logged) ==
    IF logged = <<>> THEN <<>>
    ELSE LET m == logged[Len(logged)]
             rest == StderrOf(SubSeq(logged, 1, Len(logged) - 1))
         IN  IF m.level = "error" THEN Append(rest, "Error: " \o m.message \o "\n")
             ELSE IF m.level = "warning"
             THEN Append(rest, "Warning: " \o m.message \o "\n")
             ELSE rest

\* C10: in JSON mode no informational or debug message is ever written to
\* standard output, whatever the verbosity, so that standard output holds
\* the JSON document only; warnings and errors go to the error stream in
\* every mode.
C10_JsonStdoutClean ==
    /\ _output_json =>
          /\ \A i \in 1..Len(io.stdout) : io.stdout[i].src = "print"
          /\ Len(io.stdout) <= 1
          /\ (io.stdout # <<>> => Done /\ StartsWith(io.stdout[1].text, "["))
    /\ io.stderr = StderrOf(io.logged)
    /\ \A i \in 1..Len(io.stdout) : io.stdout[i].level \notin {"error", "warning"}

\* C10 witness: a verbose JSON run that logged a warning and wrote its
\* JSON document
C10_Witness ==
    /\ Done /\ _output_json /\ _verbose
    /\ \E i \in 1..Len(io.logged) : io.logged[i].level = "warning"
    /\ \E i \in 1..Len(io.logged) : io.logged[i].level = "info"
    /\ Len(io.stdout) = 1 /\ all_file_diffs # <<>>

---------------------------------------------------------------------------
(* Traces on standard output (Spec).                                       *)

\* the messages written to standard output by _log_message, in order
Traces(stdout) == SelectSeq(stdout, LAMBDA x : x.src = "log")

\* the calls of _log_message that are no error and no warning
TraceCalls == SelectSeq(io.logged, LAMBDA m : m.level \notin {"error", "warning"})

\* the calls as they appear on standard output when written
AsWritten(calls) ==
    [i \in 1..Len(calls) |->
        [src |-> "log", level |-> calls[i].level, text |-> calls[i].message \o "\n"]]

\* the same calls made to _log_message of git_diff_script.py
RECURSIVE ScriptReplay(_, _, _)
ScriptReplay(calls, i, w) ==
    IF i > Len(calls) THEN w
    ELSE ScriptReplay(calls, i + 1,
                      LogMessageScript(w, calls[i].message, calls[i].level))

---------------------------------------------------------------------------
(* What the collection loop stores (Spec).                                 *)

\* the path a diff command was run on
PathOf(c) == c.cmd[Len(c.cmd)]

\* the git command run last
LastRun(w) == w.calls[Len(w.calls)]

\* every entry holds the trimmed, non-empty text of a diff command that
\* succeeded on its path
EntriesWereFetched ==
    \A k \in 1..Len(all_file_diffs) :
        /\ all_file_diffs[k].diff # ""
        /\ \E i \in 2..Len(io.calls) :
              /\ io.calls[i].cmd[1] = "diff"
              /\ PathOf(io.calls[i]) = all_file_diffs[k].path
              /\ io.calls[i].ok
              /\ all_file_diffs[k].diff = Strip(io.calls[i].o.stdout)

\* the label of an entry stored by the step that leaves this state
LabelHere ==
    IF pc = "walk" \/ changed_files_info[idx].status = "??"
    THEN "Untracked"
    ELSE changed_files_info[idx].status

\* one step: the mapping changes only by storing the text of the fetch the
\* step ended with, and a step whose last command failed changes nothing
StoresOnlyFetched ==
    /\ all_file_diffs' # all_file_diffs =>
          /\ Len(io'.calls) > Len(io.calls)
          /\ LastRun(io').ok
          /\ Strip(LastRun(io').o.stdout) # ""
          /\ all_file_diffs' = DictSet(all_file_diffs, PathOf(LastRun(io')),
                                       LabelHere, Strip(LastRun(io').o.stdout))
    /\ (Len(io'.calls) > Len(io.calls) /\ ~LastRun(io').ok) =>
          all_file_diffs' = all_file_diffs

\* C12: a path has an entry only if a diff fetch for it succeeded with a
\* text that is not empty after trimming; the stored text is the trimmed
\* text, the label is "Untracked" for paths reached through a "??" record
\* and the record's status code otherwise; a failed fetch leaves the
\* mapping unchanged.
C12_EntryOnlyFromSuccessfulFetch ==
    []EntriesWereFetched /\ [][StoresOnlyFetched]_vars

\* C12 witness: of two records the tracked one failed to fetch and left no
\* entry, the untracked one was stored under "Untracked"
C12_Witness ==
    /\ Done /\ ~_ignore_binaries
    /\ Len(changed_files_info) = 2
    /\ Len(all_file_diffs) = 1 /\ all_file_diffs[1].status = "Untracked"
    /\ \E i \in 2..Len(io.calls) :
          ~io.calls[i].ok /\ io.calls[i].cmd = DiffHead("foo.py")

---------------------------------------------------------------------------
(* The shape of the blocks of _split_diff_into_hunks (SpecSplit).          *)

\* the line starts a file diff or a hunk
MarkerLine(l) == StartsWith(l, "diff --git ") \/ StartsWith(l, "@@ ")

\* the positions of text where a marker line begins
MarkerStarts(text) ==
    {p \in 1..Len(text) :
        /\ p = 1 \/ Ch(text, p - 1) \in LineBreaks
        /\ MarkerLine(SubSeq(text, p, Len(text)))}

\* the lines of a block
BlockLines(b) == SplitSep(b, "\n")

\* the blocks hold the lines of the text in their order; every block but the
\* first begins with a marker line, no block has a marker line after its
\* first line, and there are as many blocks as marker lines at least
BlocksFollowMarkers(text, blocks) ==
    /\ Join(blocks, "\n") = Join(SplitLines(text), "\n")
    /\ \A i \in 2..Len(blocks) : MarkerLine(BlockLines(blocks[i])[1])
    /\ \A i \in 1..Len(blocks) :
          \A j \in 2..Len(BlockLines(blocks[i])) :
              ~MarkerLine(BlockLines(blocks[i])[j])
    /\ Len(blocks) >= Cardinality(MarkerStarts(text))

\* C13 as stated: for any input text the blocks are in source order, none
\* is the empty string, every block but the first begins with a marker
\* line, no block holds a marker line after its first line, and k marker
\* lines yield k blocks at least.
C13_NoEmptyBlockAnyText ==
    SplitReturned =>
        /\ BlocksFollowMarkers(call.text, call.blocks)
        /\ \A i \in 1..Len(call.blocks) : call.blocks[i] # ""

\* C13 amended: for any input text the blocks are in source order, every
\* block but the first begins with a marker line, no block holds a marker
\* line after its first line, and k marker lines yield k blocks at least;
\* no block is the empty string when the text does not begin with a line
\* boundary (as no trimmed diff text does), while a text that begins with
\* one followed by a marker line or by nothing has "" as its first block.
C13_NoEmptyBlockUnlessLeadingBreak ==
    SplitReturned =>
        /\ BlocksFollowMarkers(call.text, call.blocks)
        /\ \A i \in 2..Len(call.blocks) : call.blocks[i] # ""
        /\ (call.text # "" /\ Ch(call.text, 1) \notin LineBreaks
              => call.blocks[1] # "")
        /\ (call.text \in {"\n", "\n@@ -1 +1 @@"} => call.blocks[1] = "")

\* C13 witness: a file header followed by a hunk header gave two blocks,
\* each beginning with its marker line
C13_Witness ==
    /\ SplitReturned
    /\ Cardinality(MarkerStarts(call.text)) = 2
    /\ Len(call.blocks) = 2
    /\ call.blocks[1] = "diff --git a b"
    /\ StartsWith(call.blocks[2], "@@ -1 +1 @@")

---------------------------------------------------------------------------
(* The second command of _is_binary_file (SpecBin).                        *)

BinReturned == call.fn = "binary" /\ call.done

\* the command failed, as _execute_git_command sees it
CommandFailed(cmd, o) ==
    \/ o.kind # "run"
    \/ o.returncode # 0 /\ ~(cmd[1] = "diff" /\ o.returncode = 1)

\* git reports that the path or the revision is unknown, on either of the
\* streams captured from it
ReportsUnknownPath(o) ==
    o.kind = "run" /\ Contains(o.stdout \o o.stderr, UnknownRevision)

\* C14 as stated: whenever the first diff fails because the path is not
\* tracked, the second diff is run and its result decides the
\* classification; the second diff is never run when the first succeeded or
\* failed for another reason, and two commands are run at most.
C14_RetryWhenUntracked ==
    BinReturned =>
        /\ Len(io.calls) \in {1, 2}
        /\ io.calls[1].cmd = DiffHead("a.py")
        /\ (Len(io.calls) = 2) =
              (CommandFailed(DiffHead("a.py"), call.o1) /\ ReportsUnknownPath(call.o1))
        /\ Len(io.calls) = 2 =>
              /\ io.calls[2].cmd = DiffNoIndex("a.py")
              /\ call.result = (io.calls[2].ok /\ HasBinaryMarker(io.calls[2].out))

\* What the code does: the second diff is run exactly when the first failed
\* and the text of its standard output holds the message.
RetryOnStandardOutputOnly ==
    BinReturned =>
        /\ Len(io.calls) \in {1, 2}
        /\ io.calls[1].cmd = DiffHead("a.py")
        /\ (Len(io.calls) = 2) =
              (CommandFailed(DiffHead("a.py"), call.o1)
               /\ call.o1.kind = "run"
               /\ Contains(call.o1.stdout, UnknownRevision))
        /\ Len(io.calls) = 2 =>
              /\ io.calls[2].cmd = DiffNoIndex("a.py")
              /\ call.result = (io.calls[2].ok /\ HasBinaryMarker(io.calls[2].out))

\* C14 witness: the first diff failed with exit code 128 and the message on
\* its standard error, as git prints it; no second diff was run and the
\* answer is false
C14_Witness ==
    /\ BinReturned
    /\ call.o1 = Ran(128, "", UnknownRevisionText)
    /\ Len(io.calls) = 1
    /\ ~call.result

---------------------------------------------------------------------------
(* Binary skipping over a run (Spec).                                      *)

\* C15 as stated: when binary skipping is on, no collected entry, and so
\* no rendered entry, has a diff text holding both "Binary files " and
\* " differ", be it of a tracked path, of an untracked regular file or of a
\* file found in an untracked directory.
C15_NoBinaryEntryWhenSkipping ==
    _ignore_binaries =>
        \A k \in 1..Len(all_file_diffs) : ~HasBinaryMarker(all_file_diffs[k].diff)

\* C15 witness: with binary skipping on, the classifier's "diff HEAD" of an
\* untracked binary file came back empty, as git answers for a path it does
\* not track, and the binary diff of "diff --no-index" was stored
C15_Witness ==
    /\ Done /\ ret = 0 /\ _ignore_binaries
    /\ \E k \in 1..Len(all_file_diffs) :
          /\ all_file_diffs[k].path = "bar.txt"
          /\ all_file_diffs[k].status = "Untracked"
          /\ all_file_diffs[k].diff = Strip(BinaryDiff)
    /\ \E i \in 2..Len(io.calls) :
          /\ io.calls[i].cmd = DiffHead("bar.txt")
          /\ io.calls[i].o = Ran(0, "", "")
          /\ io.calls[i + 1].cmd = DiffNoIndex("bar.txt")
          /\ io.calls[i + 1].o = Ran(1, BinaryDiff, "")

===========================================================================
